---- MODULE Spec2Model ----
(***************************************************************************)
(* WiTrack: the UDP listener (server.py) that appends RSSI sightings to    *)
(* rssi_data.csv, and the batch analysis (analysis.py) that cleans,        *)
(* smooths, converts to distance and summarises them.                      *)
(*                                                                         *)
(* Three specifications share the variables:                               *)
(*   SpecCalib     the module-level calibration loading of analysis.py     *)
(*   SpecAnalysis  main(): load_and_clean_data .. create_distance_summary  *)
(*   SpecListener  udp_server() of server.py                               *)
(*                                                                         *)
(* Numbers: RSSI values are integers (dBm); a smoothed RSSI is kept        *)
(* doubled (rs2 = 2 * rssi_smooth) because a median of an even count is a  *)
(* half-integer; distances are kept in hundredths of a metre, which is     *)
(* exactly what round(2) leaves.  Times are whole seconds.  Device ids and *)
(* display names are numbered by their rank in string order.               *)
(***************************************************************************)
EXTENDS Integers, Sequences, FiniteSets, TLC

VARIABLES
    \* ---- analysis.py, calibration (module level)
    nodes,        \* content of nodes.json
    cpc,          \* position in the calibration code
    cfg,          \* the local cfg
    entry,        \* the local entry
    P0, n,        \* the calibration globals
    out,          \* what the calibration code printed
    \* ---- analysis.py, main()
    csv,          \* content of rssi_data.csv as the analysis finds it
    pc,           \* position in main()
    df,           \* the observation frame (sequence of rows)
    cols,         \* the columns of df
    devices_df,   \* the per-device table
    summary_df,   \* the per-device distance summary with its per-bin series
    \* ---- server.py
    sink,         \* rows of rssi_data.csv as the listener writes them
    lpc,          \* state of the listener thread
    log,          \* the messages the listener printed as "Received: ..."
    now,          \* the wall clock read by datetime.now()
    starts        \* how many times the listener process was started

calibVars    == <<nodes, cpc, cfg, entry, out>>
analysisVars == <<csv, pc, df, cols, devices_df, summary_df>>
listenerVars == <<sink, lpc, log, now, starts>>
vars == <<nodes, cpc, cfg, entry, P0, n, out,
          csv, pc, df, cols, devices_df, summary_df,
          sink, lpc, log, now, starts>>

(***************************************************************************)
(* Bounds of the model.                                                    *)
(***************************************************************************)
MaxRec       == 2   \* records in rssi_data.csv
MaxDatagrams == 3   \* datagrams the listener receives
MaxStarts    == 2   \* starts of the listener process
MaxClock     == 1   \* largest wall-clock reading

(***************************************************************************)
(* Generic helpers.                                                        *)
(***************************************************************************)
Range(s) == {s[i] : i \in 1..Len(s)}

RECURSIVE SumSeq(_)
SumSeq(s) == IF s = <<>> THEN 0 ELSE Head(s) + SumSeq(Tail(s))

MinOf(S) == CHOOSE x \in S : \A y \in S : x <= y
MaxOf(S) == CHOOSE x \in S : \A y \in S : x >= y

IsPrefix(s, t) == Len(s) <= Len(t) /\ SubSeq(t, 1, Len(s)) = s

\* The sequences over S of length at most k.
SeqUpTo(S, k) == UNION {[1..m -> S] : m \in 0..k}

\* The orders a sort of s may produce, le[i, j] telling whether the key of s[i] is
\* at most the key of s[j].  numpy's default quicksort, which pandas' sort_values
\* uses, is not stable: rows with equal keys come out in any order.
SortedOrders(s, le) ==
    LET N == Len(s)
        perms == {p \in [1..N -> 1..N] : \A i, j \in 1..N : i # j => p[i] # p[j]}
        ok(p) == \A i \in 1..N : i < N => le[p[i], p[i + 1]]
    IN {[i \in 1..N |-> s[p[i]]] : p \in {q \in perms : ok(q)}}

(***************************************************************************)
(* analysis.py lines 35-46: calibration.                                   *)
(***************************************************************************)
DefaultP0 == -55
DefaultN  == 3

\* A JSON value under a key: k is "none" (key absent or null), "num" (a number),
\* "numstr" (a string float() parses) or "badstr" (a string float() rejects).
JNone       == [k |-> "none", v |-> 0]
JNum(x)     == [k |-> "num", v |-> x]
JNumStr(x)  == [k |-> "numstr", v |-> x]
JBadStr     == [k |-> "badstr", v |-> 0]

\* Python truthiness: None and 0 are false, every non-empty string is true.
Truthy(x) == \/ x.k = "num" /\ x.v # 0
             \/ x.k \in {"numstr", "badstr"}

\* float(x) succeeds on a number and on a numeric string.
FloatOK(x) == x.k \in {"num", "numstr"}
FloatOf(x) == x.v

P0Values == {JNone, JNum(0), JNum(-40), JNumStr(-40), JBadStr}
NValues  == {JNone, JNum(0), JNum(2), JBadStr}

\* An entry of nodes.json: a dict with the two keys, or something that is no dict.
Entries == [isdict : {TRUE}, P0 : P0Values, n : NValues]
           \cup {[isdict |-> FALSE, P0 |-> JNone, n |-> JNone]}
NoEntry == [isdict |-> FALSE, P0 |-> JNone, n |-> JNone]

\* The parsed document: one entry, or a list of entries (here: empty or one).
Documents == {[islist |-> FALSE, items |-> <<e>>] : e \in Entries}
             \cup {[islist |-> TRUE, items |-> <<e>>] : e \in Entries}
             \cup {[islist |-> TRUE, items |-> <<>>]}
NoDocument == [islist |-> TRUE, items |-> <<>>]

NodesFiles == {[kind |-> "absent", doc |-> NoDocument],
               [kind |-> "corrupt", doc |-> NoDocument]}
              \cup {[kind |-> "json", doc |-> d] : d \in Documents}

\* line 37: if os.path.exists(NODES_JSON)
CheckExists ==
    /\ cpc = "exists"
    /\ cpc' = IF nodes.kind = "absent" THEN "done" ELSE "load"
    /\ UNCHANGED <<nodes, cfg, entry, P0, n, out, analysisVars, listenerVars>>

\* line 39: cfg = json.load(open(NODES_JSON)); a parse error raises
JsonLoad ==
    /\ cpc = "load"
    /\ IF nodes.kind = "corrupt"
         THEN cpc' = "except" /\ UNCHANGED cfg
         ELSE cpc' = "entry" /\ cfg' = nodes.doc
    /\ UNCHANGED <<nodes, entry, P0, n, out, analysisVars, listenerVars>>

\* line 40: entry = cfg[0] if isinstance(cfg, list) else cfg; cfg[0] of [] raises
SelectEntry ==
    /\ cpc = "entry"
    /\ IF cfg.islist /\ cfg.items = <<>>
         THEN cpc' = "except" /\ UNCHANGED entry
         ELSE cpc' = "check" /\ entry' = cfg.items[1]
    /\ UNCHANGED <<nodes, cfg, P0, n, out, analysisVars, listenerVars>>

\* line 41: if entry.get("P0") and entry.get("n"); .get of a non-dict raises
CheckKeys ==
    /\ cpc = "check"
    /\ cpc' = IF ~entry.isdict THEN "except"
              ELSE IF Truthy(entry.P0) /\ Truthy(entry.n) THEN "setP0"
              ELSE "done"
    /\ UNCHANGED <<nodes, cfg, entry, P0, n, out, analysisVars, listenerVars>>

\* line 42: P0 = float(entry["P0"])
SetP0 ==
    /\ cpc = "setP0"
    /\ IF FloatOK(entry.P0)
         THEN cpc' = "setn" /\ P0' = FloatOf(entry.P0)
         ELSE cpc' = "except" /\ UNCHANGED P0
    /\ UNCHANGED <<nodes, cfg, entry, n, out, analysisVars, listenerVars>>

\* line 43: n = float(entry["n"])
SetN ==
    /\ cpc = "setn"
    /\ IF FloatOK(entry.n)
         THEN cpc' = "print" /\ n' = FloatOf(entry.n)
         ELSE cpc' = "except" /\ UNCHANGED n
    /\ UNCHANGED <<nodes, cfg, entry, P0, out, analysisVars, listenerVars>>

\* line 44: print("Using calibration ...")
PrintUsing ==
    /\ cpc = "print"
    /\ cpc' = "done"
    /\ out' = Append(out, "using")
    /\ UNCHANGED <<nodes, cfg, entry, P0, n, analysisVars, listenerVars>>

\* lines 45-46: except Exception: print("Warning: ...")
Warn ==
    /\ cpc = "except"
    /\ cpc' = "done"
    /\ out' = Append(out, "warning")
    /\ UNCHANGED <<nodes, cfg, entry, P0, n, analysisVars, listenerVars>>

(***************************************************************************)
(* analysis.py lines 22-32: configuration.                                 *)
(***************************************************************************)
RSSI_MIN    == -95
RSSI_MAX    == -20
ROLL_WINDOW == 10     \* "10S"
TIME_BIN    == 2      \* "2S"

(***************************************************************************)
(* The content of rssi_data.csv.  A record's "bad" names the required      *)
(* field that is missing (NaN in the frame) or present but unparseable     *)
(* (coerced to NaT / NaN), "none" for a record with all three.             *)
(***************************************************************************)
TimeValues   == {0, 4, 10}
BssidValues  == {1, 2}
SsidValues   == {1, 2}
RssiInBand   == {-95, -85, -64, -21, -20}
RssiOutBand  == {-96, -19}
BadKinds     == {"t_missing", "t_unparseable", "bssid_missing",
                 "rssi_missing", "rssi_unparseable"}

\* Every combination of time, device and in-band RSSI under the first display name;
\* device 1 also seen under a second name; one record per way of being rejected.
RawRecords ==
    [t : TimeValues, bssid : BssidValues, rssi : RssiInBand, ssid : {1}, bad : {"none"}]
    \cup [t : TimeValues, bssid : {1}, rssi : {-64}, ssid : SsidValues, bad : {"none"}]
    \cup [t : {0}, bssid : {1}, rssi : RssiOutBand, ssid : {1}, bad : {"none"}]
    \cup [t : {0}, bssid : {1}, rssi : {-64}, ssid : {1}, bad : BadKinds]

CsvFiles ==
    {[kind |-> "absent", rows |-> <<>>], [kind |-> "badcolumns", rows |-> <<>>]}
    \cup {[kind |-> "ok", rows |-> r] : r \in SeqUpTo(RawRecords, MaxRec)}

\* The calibrations the analysis is run under: the defaults, and a full override.
Calibrations == {<<DefaultP0, DefaultN>>, <<-40, 2>>}

(***************************************************************************)
(* load_and_clean_data, lines 48-84.                                       *)
(***************************************************************************)
\* The band with its end points left out.
InBandExclusive(rssi) == rssi > RSSI_MIN /\ rssi < RSSI_MAX

\* line 69: (df["rssi"] >= RSSI_MIN) & (df["rssi"] <= RSSI_MAX)
InBand(rssi) == rssi >= RSSI_MIN /\ rssi <= RSSI_MAX

\* lines 64-69: the dropna / coerce / dropna chain and the band filter.  A row
\* keeps its index label in the frame (idx: its position in the file).
Cleaned(rows) ==
    LET frame == [i \in 1..Len(rows) |->
                    [idx |-> i, t |-> rows[i].t, bssid |-> rows[i].bssid,
                     rssi |-> rows[i].rssi, ssid |-> rows[i].ssid]]
        keep(r) == rows[r.idx].bad = "none" /\ InBand(r.rssi)
    IN SelectSeq(frame, keep)

TimeLe(s) == [i \in 1..Len(s), j \in 1..Len(s) |-> s[i].t <= s[j].t]

BaseColumns == {"timestamp_received", "bssid", "rssi", "ssid", "channel", "t"}

LoadAndCleanData ==
    /\ pc = "start"
    /\ IF csv.kind # "ok"
         THEN \* lines 50-52 and 59-61: sys.exit(1)
              /\ pc' = "exit"
              /\ UNCHANGED <<df, cols>>
         ELSE \* line 82: df.sort_values("t")
              /\ df' \in SortedOrders(Cleaned(csv.rows), TimeLe(Cleaned(csv.rows)))
              /\ cols' = BaseColumns
              /\ pc' = "loaded"
    /\ UNCHANGED <<csv, devices_df, summary_df, P0, n, calibVars, listenerVars>>

(***************************************************************************)
(* smooth_rssi_data, lines 86-96.                                          *)
(***************************************************************************)
Keys(frame) == {frame[i].bssid : i \in 1..Len(frame)}

\* The elements of a finite set of integers in ascending order.
Ascending(S) ==
    CHOOSE s \in [1..Cardinality(S) -> S] :
        \A i, j \in 1..Cardinality(S) : i < j => s[i] < s[j]

Group(frame, b) == LET is(r) == r.bssid = b IN SelectSeq(frame, is)

Less(a, b) == a < b

\* Twice the median of a non-empty sequence of integers.
Median2(v) ==
    LET s == SortSeq(v, Less)
        m == Len(s)
    IN IF m % 2 = 1 THEN 2 * s[(m + 1) \div 2]
       ELSE s[m \div 2] + s[m \div 2 + 1]

\* line 92, rolling("10S", min_periods=1) over the time-sorted group g: the window
\* of row i is rows start..i, start the first row whose time is later than
\* t[i] - 10s (closed on the right, open on the left).  The window ends at row i
\* itself: pandas' variable-window bounds set end[i] = i + 1, so a later row with
\* the same timestamp is not part of it.
WindowStart(g, i) == MinOf({j \in 1..i : g[j].t > g[i].t - ROLL_WINDOW})

WindowValues(g, i) ==
    [k \in 1..(i - WindowStart(g, i) + 1) |-> g[WindowStart(g, i) + k - 1].rssi]

\* line 88: floor to the 2 s bin
TimeBinOf(t) == t - (t % TIME_BIN)

\* smooth_group, lines 90-93, on a group already put in time order
SmoothGroup(g) ==
    [i \in 1..Len(g) |->
        [idx |-> g[i].idx, t |-> g[i].t, bssid |-> g[i].bssid, rssi |-> g[i].rssi,
         ssid |-> g[i].ssid, t_bin |-> TimeBinOf(g[i].t),
         rs2 |-> Median2(WindowValues(g, i))]]

\* line 95: groupby("bssid").apply(smooth_group): the groups in key order, each
\* sorted by time (line 91) and smoothed, concatenated.
RECURSIVE SmoothGroups(_, _)
SmoothGroups(frame, keys) ==
    IF keys = <<>> THEN {<<>>}
    ELSE LET g == Group(frame, Head(keys))
         IN {SmoothGroup(o) \o rest :
                o \in SortedOrders(g, TimeLe(g)),
                rest \in SmoothGroups(frame, Tail(keys))}

\* With no group at all, apply() never calls smooth_group: whether the empty
\* result carries an rssi_smooth column depends on the pandas release.
SmoothRssiData ==
    /\ pc = "loaded"
    /\ df' \in SmoothGroups(df, Ascending(Keys(df)))
    /\ cols' \in IF df = <<>>
                   THEN {cols \cup {"t_bin"}, cols \cup {"t_bin", "rssi_smooth"}}
                   ELSE {cols \cup {"t_bin", "rssi_smooth"}}
    /\ pc' = "smoothed"
    /\ UNCHANGED <<csv, devices_df, summary_df, P0, n, calibVars, listenerVars>>

(***************************************************************************)
(* calculate_distances, lines 98-102.                                      *)
(*   distance_m = round(10 ** ((P0 - rssi_smooth) / (10 * n)), 2)          *)
(* Pow10TableN[e2 + 111] is round(10 ** ((e2 / 2) / (10 * N)), 2) in       *)
(* hundredths, tabulated from that formula for e2 = 2 * (P0 - rssi_smooth) *)
(* in -70..110, which covers the band [-95, -20] under P0 in {-55, -40}.   *)
(***************************************************************************)
Pow10Table3 ==
    <<
       1, 2, 2, 2, 2, 2, 2, 2, 2, 2, 2, 2,
       2, 2, 3, 3, 3, 3, 3, 3, 3, 3, 3, 4,
       4, 4, 4, 4, 4, 4, 5, 5, 5, 5, 5, 6,
       6, 6, 6, 7, 7, 7, 7, 8, 8, 8, 9, 9,
       9, 10, 10, 10, 11, 11, 12, 12, 13, 13, 14, 14,
       15, 15, 16, 16, 17, 18, 18, 19, 20, 21, 22, 22,
       23, 24, 25, 26, 27, 28, 29, 30, 32, 33, 34, 35,
       37, 38, 40, 41, 43, 45, 46, 48, 50, 52, 54, 56,
       58, 61, 63, 66, 68, 71, 74, 76, 79, 83, 86, 89,
       93, 96, 100, 104, 108, 112, 117, 121, 126, 131, 136, 141,
       147, 153, 158, 165, 171, 178, 185, 192, 200, 207, 215, 224,
       233, 242, 251, 261, 271, 282, 293, 304, 316, 329, 341, 355,
       369, 383, 398, 414, 430, 447, 464, 482, 501, 521, 541, 562,
       584, 607, 631, 656, 681, 708, 736, 764, 794, 825, 858, 891,
       926, 962, 1000, 1039, 1080, 1122, 1166, 1212, 1259, 1308, 1359, 1413,
       1468, 1525, 1585, 1647, 1711, 1778, 1848, 1920, 1995, 2073, 2154, 2239,
       2326, 2417, 2512, 2610, 2712, 2818, 2929, 3043, 3162, 3286, 3415, 3548,
       3687, 3831, 3981, 4137, 4299, 4467, 4642, 4823, 5012, 5208, 5412, 5623,
       5843, 6072, 6310, 6556, 6813
    >>

Pow10Table2 ==
    <<
       0, 0, 0, 0, 0, 0, 0, 0, 0, 0, 0, 0,
       0, 0, 0, 0, 0, 0, 1, 1, 1, 1, 1, 1,
       1, 1, 1, 1, 1, 1, 1, 1, 1, 1, 1, 1,
       1, 1, 2, 2, 2, 2, 2, 2, 2, 2, 3, 3,
       3, 3, 3, 3, 4, 4, 4, 4, 4, 5, 5, 5,
       6, 6, 6, 7, 7, 7, 8, 8, 9, 9, 10, 11,
       11, 12, 13, 13, 14, 15, 16, 17, 18, 19, 20, 21,
       22, 24, 25, 27, 28, 30, 32, 33, 35, 38, 40, 42,
       45, 47, 50, 53, 56, 60, 63, 67, 71, 75, 79, 84,
       89, 94, 100, 106, 112, 119, 126, 133, 141, 150, 158, 168,
       178, 188, 200, 211, 224, 237, 251, 266, 282, 299, 316, 335,
       355, 376, 398, 422, 447, 473, 501, 531, 562, 596, 631, 668,
       708, 750, 794, 841, 891, 944, 1000, 1059, 1122, 1189, 1259, 1334,
       1413, 1496, 1585, 1679, 1778, 1884, 1995, 2113, 2239, 2371, 2512, 2661,
       2818, 2985, 3162, 3350, 3548, 3758, 3981, 4217, 4467, 4732, 5012, 5309,
       5623, 5957, 6310, 6683, 7079, 7499, 7943, 8414, 8913, 9441, 10000, 10593,
       11220, 11885, 12589, 13335, 14125, 14962, 15849, 16788, 17783, 18836, 19953, 21135,
       22387, 23714, 25119, 26607, 28184, 29854, 31623, 33497, 35481, 37584, 39811, 42170,
       44668, 47315, 50119, 53088, 56234
    >>

Pow10(e2, pn) == IF pn = 3 THEN Pow10Table3[e2 + 111] ELSE Pow10Table2[e2 + 111]

\* The path-loss formula with rssi_smooth - P0 in the exponent.
DistanceSwapped(p0, pn, rs2) == Pow10(rs2 - 2 * p0, pn)

\* lines 100-101
Distance(p0, pn, rs2) == Pow10(2 * p0 - rs2, pn)

CalculateDistances ==
    /\ pc = "smoothed"
    /\ IF "rssi_smooth" \notin cols
         THEN \* df["rssi_smooth"] raises KeyError
              /\ pc' = "error"
              /\ UNCHANGED <<df, cols>>
         ELSE /\ df' = [i \in 1..Len(df) |->
                          [idx |-> df[i].idx, t |-> df[i].t, bssid |-> df[i].bssid,
                           rssi |-> df[i].rssi, ssid |-> df[i].ssid,
                           t_bin |-> df[i].t_bin, rs2 |-> df[i].rs2,
                           distance_m |-> Distance(P0, n, df[i].rs2)]]
              /\ cols' = cols \cup {"distance_m"}
              /\ pc' = "distanced"
    /\ UNCHANGED <<csv, devices_df, summary_df, P0, n, calibVars, listenerVars>>

(***************************************************************************)
(* create_wifi_devices_table, lines 104-168.                               *)
(***************************************************************************)
Count(v, x) == Cardinality({i \in 1..Len(v) : v[i] = x})

\* The values of v that occur most often.
Modes(v) == {x \in Range(v) : \A y \in Range(v) : Count(v, x) >= Count(v, y)}

\* The most frequent value that occurs first in v.
ModeFirstSeen(v) == v[MinOf({i \in 1..Len(v) : v[i] \in Modes(v)})]

\* line 110: group["ssid"].mode().iloc[0]; Series.mode() returns the most frequent
\* values sorted ascending, so its first element is the smallest of them.
Mode(v) == Ascending(Modes(v))[1]

Column(g, f) == [i \in 1..Len(g) |-> g[i][f]]

\* The zones with inclusive upper bounds.
ProximityInclusive(dsum, cnt) ==
    IF dsum <= 200 * cnt THEN "Very Close"
    ELSE IF dsum <= 500 * cnt THEN "Close"
    ELSE IF dsum <= 1000 * cnt THEN "Medium"
    ELSE "Far"

\* lines 136-143, on dist_avg = dsum / cnt hundredths of a metre
Proximity(dsum, cnt) ==
    IF dsum < 200 * cnt THEN "Very Close"
    ELSE IF dsum < 500 * cnt THEN "Close"
    ELSE IF dsum < 1000 * cnt THEN "Medium"
    ELSE "Far"

\* line 161, on rssi_avg = rsum2 / (2 * cnt) dBm
SignalStrength(rsum2, cnt) ==
    IF rsum2 > -100 * cnt THEN "Strong"
    ELSE IF rsum2 > -140 * cnt THEN "Medium"
    ELSE "Weak"

\* Characters are kept as their code points: "." is 46, "0".."9" are 48..57.
RECURSIVE Digits(_)
Digits(k) == IF k < 10 THEN <<48 + k>> ELSE Digits(k \div 10) \o <<48 + (k % 10)>>

\* f"{x:.2f}" of x = h hundredths
Format2f(h) == Digits(h \div 100) \o <<46, 48 + ((h % 100) \div 10), 48 + (h % 10)>>

\* The hundredths f"{dist_avg:.2f}" may round dsum / cnt to: the nearest; when the
\* mean lies half-way the binary value of the float decides, so either.
AvgRoundings(dsum, cnt) ==
    LET q == dsum \div cnt
        r == dsum % cnt
    IN IF 2 * r < cnt THEN {q}
       ELSE IF 2 * r > cnt THEN {q + 1}
       ELSE {q, q + 1}

\* Python's order of two strings
RECURSIVE StrLe(_, _)
StrLe(a, b) ==
    IF a = <<>> THEN TRUE
    ELSE IF b = <<>> THEN FALSE
    ELSE IF Head(a) # Head(b) THEN Head(a) < Head(b)
    ELSE StrLe(Tail(a), Tail(b))

\* lines 109-162: the row of one device
DeviceRows(g) ==
    LET dist == Column(g, "distance_m")
        dsum == SumSeq(dist)
        rsum2 == SumSeq(Column(g, "rs2"))
        cnt == Len(g)
    IN {[BSSID |-> g[1].bssid,
         SSID |-> Mode(Column(g, "ssid")),
         First_Seen |-> MinOf(Range(Column(g, "t"))),
         Last_Seen |-> MaxOf(Range(Column(g, "t"))),
         Total_Packets |-> cnt,
         rssi2_sum |-> rsum2,
         dist_sum |-> dsum,
         Distance_Min_m |-> Format2f(MinOf(Range(dist))),
         Distance_Max_m |-> Format2f(MaxOf(Range(dist))),
         Distance_Avg_m |-> Format2f(h),
         Proximity_Zone |-> Proximity(dsum, cnt),
         Signal_Strength |-> SignalStrength(rsum2, cnt)] : h \in AvgRoundings(dsum, cnt)}

\* line 109: one row per group, in key order
RECURSIVE DeviceStats(_, _)
DeviceStats(frame, keys) ==
    IF keys = <<>> THEN {<<>>}
    ELSE {<<row>> \o rest :
            row \in DeviceRows(Group(frame, Head(keys))),
            rest \in DeviceStats(frame, Tail(keys))}

AvgStrLe(rows) ==
    [i \in 1..Len(rows), j \in 1..Len(rows) |->
        StrLe(rows[i].Distance_Avg_m, rows[j].Distance_Avg_m)]

CreateWifiDevicesTable ==
    /\ pc = "distanced"
    /\ IF df = <<>>
         THEN \* lines 164-165: DataFrame([]) has no column; sort_values raises KeyError
              /\ pc' = "error"
              /\ UNCHANGED devices_df
         ELSE \* line 165: sort_values("Distance_Avg_m") on the formatted strings
              /\ \E rows \in DeviceStats(df, Ascending(Keys(df))) :
                    devices_df' \in SortedOrders(rows, AvgStrLe(rows))
              /\ pc' = "tabled"
    /\ UNCHANGED <<csv, df, cols, summary_df, P0, n, calibVars, listenerVars>>

(***************************************************************************)
(* create_distance_summary, lines 170-195.                                 *)
(***************************************************************************)
\* line 178: group.groupby("t_bin")["distance_m"].mean(): per bin, in bin order,
\* the sum and the count of the member distances
Binned(g) ==
    LET bins == Ascending(Range(Column(g, "t_bin")))
    IN [k \in 1..Len(bins) |->
          LET in(r) == r.t_bin = bins[k]
              members == SelectSeq(g, in)
          IN [t_bin |-> bins[k],
              dist_sum |-> SumSeq(Column(members, "distance_m")),
              count |-> Len(members)]]

RECURSIVE SummaryData(_, _)
SummaryData(frame, keys) ==
    IF keys = <<>> THEN <<>>
    ELSE LET g == Group(frame, Head(keys))
         IN <<[BSSID |-> Head(keys),
               SSID |-> Mode(Column(g, "ssid")),
               Time_Points |-> Len(Binned(g)),
               binned |-> Binned(g)]>> \o SummaryData(frame, Tail(keys))

CreateDistanceSummary ==
    /\ pc = "tabled"
    /\ summary_df' = SummaryData(df, Ascending(Keys(df)))
    /\ pc' = "summarised"
    /\ UNCHANGED <<csv, df, cols, devices_df, P0, n, calibVars, listenerVars>>

(***************************************************************************)
(* server.py: udp_server, lines 17-40.                                     *)
(***************************************************************************)
Header == <<"timestamp_received", "node_id", "ssid", "bssid", "rssi", "channel",
            "node_timestamp">>

\* A datagram: whether its bytes decode, and the decoded text, one string per
\* character.
Text(chars) == [utf8 |-> TRUE, text |-> chars]
Datagrams ==
    {Text(<<"1", ",", "n", ",", "b", ",", "r", ",", "6", ",", "9">>),
     Text(<<" ", "1", ",", "n", ",", "b", ",", "r", ",", "6", ",", "9", "\n">>),
     Text(<<",", ",", ",", ",", ",">>),
     Text(<<"1", ",", "n", ",", "b", ",", "r", ",", "6">>),
     Text(<<"1", ",", "n", ",", "x", ",", "b", ",", "r", ",", "6", ",", "9">>),
     Text(<<>>),
     [utf8 |-> FALSE, text |-> <<>>]}

Whitespace == {" ", "\n", "\t", "\r"}

\* line 29: str.strip()
RECURSIVE StripLeft(_)
StripLeft(c) == IF c # <<>> /\ Head(c) \in Whitespace THEN StripLeft(Tail(c)) ELSE c
RECURSIVE StripRight(_)
StripRight(c) ==
    IF c # <<>> /\ c[Len(c)] \in Whitespace THEN StripRight(SubSeq(c, 1, Len(c) - 1))
    ELSE c
Strip(c) == StripRight(StripLeft(c))

\* line 33: message.split(','): the fields between the commas, as strings
RECURSIVE Split(_)
Split(c) ==
    IF c = <<>> THEN <<"">>
    ELSE LET front == Split(SubSeq(c, 1, Len(c) - 1))
             last == c[Len(c)]
             k == Len(front)
         IN IF last = "," THEN Append(front, "")
            ELSE [front EXCEPT ![k] = front[k] \o last]

\* An unpacking that takes the first six of six or more fields.
UnpacksAtLeastSix(fields) == Len(fields) >= 6

\* line 33: the unpacking into six names succeeds on exactly six fields
Unpacks(fields) == Len(fields) = 6

\* line 34: datetime.now().isoformat()
IsoFormat(t) == ToString(t)

\* lines 18-25: bind, then append the header row (mode 'a', no emptiness test)
StartListener ==
    /\ lpc \in {"idle", "stopped"}
    /\ starts < MaxStarts
    /\ starts' = starts + 1
    /\ sink' = Append(sink, Header)
    /\ lpc' = "listening"
    /\ UNCHANGED <<log, now, P0, n, calibVars, analysisVars>>

\* lines 27-40: one turn of the loop
ReceiveDatagram ==
    /\ lpc = "listening"
    /\ Len(log) < MaxDatagrams
    /\ \E d \in Datagrams :
         IF ~d.utf8
           THEN \* line 29 is outside the try: UnicodeDecodeError ends the thread
                /\ lpc' = "dead"
                /\ UNCHANGED <<sink, log, now>>
           ELSE LET message == Strip(d.text)
                    fields == Split(message)
                IN /\ log' = Append(log, message)
                   /\ lpc' = "listening"
                   /\ IF Unpacks(fields)
                        THEN \E ts \in now..MaxClock :
                               /\ now' = ts
                               /\ sink' = Append(sink, <<IsoFormat(ts)>> \o fields)
                        ELSE \* ValueError, caught at line 39
                             UNCHANGED <<sink, now>>
    /\ UNCHANGED <<starts, P0, n, calibVars, analysisVars>>

\* The process is ended from outside (the thread is a daemon of the Flask process).
StopListener ==
    /\ lpc \in {"listening", "dead"}
    /\ lpc' = "stopped"
    /\ UNCHANGED <<sink, log, now, starts, P0, n, calibVars, analysisVars>>

(***************************************************************************)
(* The specifications.                                                     *)
(***************************************************************************)
CalibIdle ==
    /\ nodes = [kind |-> "absent", doc |-> NoDocument]
    /\ cpc = "done"
    /\ cfg = NoDocument
    /\ entry = NoEntry
    /\ out = <<>>

AnalysisIdle ==
    /\ csv = [kind |-> "absent", rows |-> <<>>]
    /\ pc = "idle"
    /\ df = <<>>
    /\ cols = {}
    /\ devices_df = <<>>
    /\ summary_df = <<>>

ListenerIdle ==
    /\ sink = <<>>
    /\ lpc = "idle"
    /\ log = <<>>
    /\ now = 0
    /\ starts = 0

\* lines 35-36, before line 37
InitCalib ==
    /\ nodes \in NodesFiles
    /\ cpc = "exists"
    /\ cfg = NoDocument
    /\ entry = NoEntry
    /\ P0 = DefaultP0
    /\ n = DefaultN
    /\ out = <<>>
    /\ AnalysisIdle
    /\ ListenerIdle

NextCalib ==
    \/ CheckExists
    \/ JsonLoad
    \/ SelectEntry
    \/ CheckKeys
    \/ SetP0
    \/ SetN
    \/ PrintUsing
    \/ Warn

SpecCalib == InitCalib /\ [][NextCalib]_vars

\* main() is entered with the calibration loaded
InitAnalysis ==
    /\ csv \in CsvFiles
    /\ \E c \in Calibrations : P0 = c[1] /\ n = c[2]
    /\ pc = "start"
    /\ df = <<>>
    /\ cols = {}
    /\ devices_df = <<>>
    /\ summary_df = <<>>
    /\ CalibIdle
    /\ ListenerIdle

NextAnalysis ==
    \/ LoadAndCleanData
    \/ SmoothRssiData
    \/ CalculateDistances
    \/ CreateWifiDevicesTable
    \/ CreateDistanceSummary

SpecAnalysis == InitAnalysis /\ [][NextAnalysis]_vars

InitListener ==
    /\ ListenerIdle
    /\ P0 = DefaultP0
    /\ n = DefaultN
    /\ CalibIdle
    /\ AnalysisIdle

NextListener ==
    \/ StartListener
    \/ ReceiveDatagram
    \/ StopListener

SpecListener == InitListener /\ [][NextListener]_vars

(***************************************************************************)
(* Properties.                                                             *)
(***************************************************************************)
Loaded == pc \in {"loaded", "smoothed", "distanced", "tabled", "summarised", "error"}
Tabled == pc \in {"tabled", "summarised"}

Retained(i) == \E k \in 1..Len(df) : df[k].idx = i

\* C1: a record of the file with timestamp, device id and rssi present and parseable
\* is in the cleaned frame iff -95 <= rssi <= -20, and it is there with its own rssi
\* (dropped when out of range, never capped).
RangeFilter ==
    Loaded =>
        \A i \in 1..Len(csv.rows) :
            csv.rows[i].bad = "none" =>
                /\ Retained(i) <=> (-95 <= csv.rows[i].rssi /\ csv.rows[i].rssi <= -20)
                /\ \A k \in 1..Len(df) : df[k].idx = i => df[k].rssi = csv.rows[i].rssi

RangeFilterWitness ==
    /\ pc = "loaded"
    /\ \E i, j \in 1..Len(csv.rows) :
         /\ csv.rows[i].bad = "none" /\ csv.rows[i].rssi = -95 /\ Retained(i)
         /\ csv.rows[j].bad = "none" /\ csv.rows[j].rssi = -19 /\ ~Retained(j)

\* C2: the rows of the per-device table are in ascending order of the numeric mean
\* distance (dist_sum / Total_Packets of a row at most that of the next row).
TableSortedByMeanDistance ==
    Tabled =>
        \A i \in 1..Len(devices_df) :
            i < Len(devices_df) =>
                devices_df[i].dist_sum * devices_df[i + 1].Total_Packets
                    <= devices_df[i + 1].dist_sum * devices_df[i].Total_Packets

\* The values of the same device's rows whose time lies in (t - 10s, t].
TimeWindowValues(b, t) ==
    LET in(r) == r.bssid = b /\ r.t > t - 10 /\ r.t <= t
    IN Column(SelectSeq(df, in), "rssi")

\* C3: rssi_smooth of every observation at time t is the median of all RSSI values
\* of the same device received in (t - 10s, t], same-timestamp observations included.
SmoothIsTimeWindowMedian ==
    pc = "smoothed" =>
        \A i \in 1..Len(df) :
            df[i].rs2 = Median2(TimeWindowValues(df[i].bssid, df[i].t))

\* C4: when the input exists but no record survives cleaning, the pipeline reaches no
\* error state.
EmptyInputIsNoError ==
    (csv.kind = "ok" /\ Loaded /\ df = <<>>) => pc # "error"

\* The entry line 40 selects from nodes.json, when there is one.
Supplied == nodes.doc.items[1]
BothSupplied ==
    /\ nodes.kind = "json"
    /\ nodes.doc.items # <<>>
    /\ Supplied.isdict
    /\ FloatOK(Supplied.P0)
    /\ FloatOK(Supplied.n)

\* C5: after calibration loading (P0, n) is the defaults (-55, 3) or the pair of both
\* supplied values; a rejected calibration leaves both defaults in force.
CalibrationAllOrNothing ==
    cpc = "done" =>
        \/ P0 = -55 /\ n = 3
        \/ BothSupplied /\ P0 = Supplied.P0.v /\ n = Supplied.n.v

\* C6: the proximity zone of every device follows its mean distance d with exclusive
\* upper bounds: d < 2 Very Close, 2 <= d < 5 Close, 5 <= d < 10 Medium, d >= 10 Far.
ZoneByMeanDistance ==
    Tabled =>
        \A i \in 1..Len(devices_df) :
            LET s == devices_df[i].dist_sum
                c == devices_df[i].Total_Packets
                z == devices_df[i].Proximity_Zone
            IN /\ z = "Very Close" <=> s < 200 * c
               /\ z = "Close" <=> (200 * c <= s /\ s < 500 * c)
               /\ z = "Medium" <=> (500 * c <= s /\ s < 1000 * c)
               /\ z = "Far" <=> 1000 * c <= s

ZoneWitness ==
    /\ pc = "tabled"
    /\ \E i, j \in 1..Len(devices_df) :
         /\ devices_df[i].dist_sum = 200 * devices_df[i].Total_Packets
         /\ devices_df[i].Proximity_Zone = "Close"
         /\ devices_df[j].dist_sum = 1000 * devices_df[j].Total_Packets
         /\ devices_df[j].Proximity_Zone = "Far"

\* C7 as stated: distance_m, rounding included, is strictly decreasing in rssi_smooth.
DistanceStrictlyDecreasing ==
    pc = "distanced" =>
        \A i, j \in 1..Len(df) :
            df[i].rs2 < df[j].rs2 => df[i].distance_m > df[j].distance_m

\* C7 as amended: distance_m, rounding included, never increases with rssi_smooth
\* (two smoothed values may round to the same distance).
DistanceNonIncreasing ==
    pc = "distanced" =>
        \A i, j \in 1..Len(df) :
            df[i].rs2 < df[j].rs2 => df[i].distance_m >= df[j].distance_m

DistanceWitness ==
    /\ pc = "distanced"
    /\ \E i, j \in 1..Len(df) :
         /\ df[i].rs2 < df[j].rs2
         /\ df[i].distance_m = df[j].distance_m

Names(b) == Column(Group(df, b), "ssid")

\* C8 as stated: the representative name is a most frequent name of the device, and
\* among several most frequent names the first encountered in its observations.
NameIsFirstSeenMode ==
    Tabled =>
        \A i \in 1..Len(devices_df) :
            LET v == Names(devices_df[i].BSSID)
                most(x) == \A y \in Range(v) : Count(v, x) >= Count(v, y)
                first == MinOf({k \in 1..Len(v) : most(v[k])})
            IN devices_df[i].SSID = v[first]

\* C8 as amended: the representative name is a most frequent name of the device, and
\* among several most frequent names the one that sorts first.
NameIsSmallestMode ==
    Tabled =>
        \A i \in 1..Len(devices_df) :
            LET v == Names(devices_df[i].BSSID)
                most(x) == \A y \in Range(v) : Count(v, x) >= Count(v, y)
            IN /\ devices_df[i].SSID \in Range(v)
               /\ most(devices_df[i].SSID)
               /\ \A x \in Range(v) : most(x) => devices_df[i].SSID <= x

NameWitness ==
    /\ pc = "tabled"
    /\ \E i \in 1..Len(devices_df) :
         LET v == Names(devices_df[i].BSSID)
         IN /\ Len(v) = 2
            /\ v[1] = 2
            /\ v[2] = 1
            /\ devices_df[i].SSID = 1

\* C9: once the listener has started, the sink holds exactly one header row, and it
\* is the first row.
OneHeaderFirst ==
    starts > 0 =>
        /\ sink[1] = Header
        /\ Cardinality({i \in 1..Len(sink) : sink[i] = Header}) = 1

Commas(c) == Cardinality({i \in 1..Len(c) : c[i] = ","})

RECURSIVE Concat(_)
Concat(c) == IF c = <<>> THEN "" ELSE Head(c) \o Concat(Tail(c))

CommaJoined(row) ==
    row[2] \o "," \o row[3] \o "," \o row[4] \o "," \o row[5] \o "," \o row[6]
        \o "," \o row[7]

====
